---- MODULE Spec2Model ----
(***************************************************************************)
(* Model of src/src/nightly.rs: the generic atomic dispatch layer.         *)
(*                                                                         *)
(* A value of the generic type T and a value of a fixed-width unsigned     *)
(* integer are both modelled by their storage: a sequence of bytes in      *)
(* memory order.  The numeric reading of integer storage depends on the    *)
(* target's byte order and is used only inside the arithmetic primitives.  *)
(***************************************************************************)
EXTENDS Integers, Sequences, FiniteSets, TLC

VARIABLES
    size_of_T,          \* mem::size_of::<T>()
    align_of_T,         \* mem::align_of::<T>()
    target_has_atomic,  \* widths (in bits) the target declares: cfg(target_has_atomic)
    target_endian,      \* "little" or "big"
    mem,                \* the bytes at dst
    pc,                 \* per thread: "idle", "native", "fb_wait", "fb_locked"
    pend,               \* per thread: the call in progress (request and forwarded call)
    tmp,                \* per thread: the value the fallback read under its lock
    lock,               \* the fallback's lock: 0 when free, else the holder
    calls,              \* number of calls issued so far
    ev,                 \* the last operation that took effect
    raw,                \* a raw native atomic fed the same operations (native path)
    lockfree,           \* what atomic_is_lock_free::<T>() returned, once asked
    dispatched,         \* a call and what the layer did with it
    issued,             \* per thread: the calls issued (their number, or the values swapped in)
    rets,               \* the values the calls returned, in order
    msgs,               \* message passing: per location, the writes in modification order
    tview,              \* message passing: per thread and location, the latest write seen
    regs,               \* message passing: what the reader has read
    mord                \* message passing: <<ordering of the store, ordering of the load>>

vars == <<size_of_T, align_of_T, target_has_atomic, target_endian, mem, pc, pend,
          tmp, lock, calls, ev, raw, lockfree, dispatched, issued, rets,
          msgs, tview, regs, mord>>

build == <<size_of_T, align_of_T, target_has_atomic, target_endian>>

\* The variables each specification leaves alone.
NotMain == <<lockfree, dispatched, issued, rets, msgs, tview, regs, mord>>

NotDispatch == <<mem, pc, pend, tmp, lock, calls, ev, raw, issued, rets,
                 msgs, tview, regs, mord>>

NotCount == <<calls, ev, raw, lockfree, dispatched, msgs, tview, regs, mord>>

NotPassing == <<mem, pend, tmp, lock, calls, ev, raw, lockfree, dispatched, issued, rets>>

(***************************************************************************)
(* Bounds of the model.                                                    *)
(***************************************************************************)
MaxCalls == 2

Threads == {1, 2}

Orderings == {"Relaxed", "Acquire", "Release", "AcqRel", "SeqCst"}

(***************************************************************************)
(* Bytes and fixed-width integers.                                         *)
(***************************************************************************)
Reverse(s) == [i \in 1..Len(s) |-> s[Len(s) + 1 - i]]

\* Storage of an unsigned integer -> its base-256 digits, most significant first.
from_ne_bytes(b) == IF target_endian = "little" THEN Reverse(b) ELSE b

\* Base-256 digits, most significant first -> storage of the integer.
to_ne_bytes(d) == IF target_endian = "little" THEN Reverse(d) ELSE d

\* Schoolbook addition of two digit strings of one length; the carry out of the
\* most significant digit is dropped.
AddDigits(a, b) ==
    LET n == Len(a)
        carry[i \in 1..(n + 1)] ==
            IF i = n + 1 THEN 0 ELSE (a[i] + b[i] + carry[i + 1]) \div 256
    IN  [i \in 1..n |-> (a[i] + b[i] + carry[i + 1]) % 256]

\* Schoolbook subtraction; the borrow out of the most significant digit is dropped.
SubDigits(a, b) ==
    LET n == Len(a)
        borrow[i \in 1..(n + 1)] ==
            IF i = n + 1 THEN 0
            ELSE IF a[i] < b[i] + borrow[i + 1] THEN 1 ELSE 0
    IN  [i \in 1..n |-> (a[i] + 256 - b[i] - borrow[i + 1]) % 256]

wrapping_add(a, b) == to_ne_bytes(AddDigits(from_ne_bytes(a), from_ne_bytes(b)))

wrapping_sub(a, b) == to_ne_bytes(SubDigits(from_ne_bytes(a), from_ne_bytes(b)))

Bit(x, i) == (x \div (2 ^ i)) % 2

\* The byte whose bit i is f[i].
FromBits(f) ==
    f[0] + 2 * f[1] + 4 * f[2] + 8 * f[3] + 16 * f[4] + 32 * f[5] + 64 * f[6] + 128 * f[7]

AndByte(x, y) == FromBits([i \in 0..7 |-> Bit(x, i) * Bit(y, i)])

OrByte(x, y) == FromBits([i \in 0..7 |-> Bit(x, i) + Bit(y, i) - Bit(x, i) * Bit(y, i)])

XorByte(x, y) == FromBits([i \in 0..7 |-> (Bit(x, i) + Bit(y, i)) % 2])

bitand(a, b) == [i \in 1..Len(a) |-> AndByte(a[i], b[i])]

bitor(a, b) == [i \in 1..Len(a) |-> OrByte(a[i], b[i])]

bitxor(a, b) == [i \in 1..Len(a) |-> XorByte(a[i], b[i])]

(***************************************************************************)
(* Results.                                                                *)
(***************************************************************************)
Unit == [tag |-> "unit", v |-> <<>>]

Val(x) == [tag |-> "val", v |-> x]

Ok(x) == [tag |-> "Ok", v |-> x]

Err(x) == [tag |-> "Err", v |-> x]

(***************************************************************************)
(* mem::transmute_copy::<A, B>(&src): reads size_of::<B>() bytes at &src.  *)
(***************************************************************************)
\* Mutant of transmute_copy: only the lowest-addressed byte is copied.
transmute_copy_first_byte(src, n) == [i \in 1..n |-> IF i = 1 THEN src[i] ELSE 0]

transmute_copy(src, n) == [i \in 1..n |-> src[i]]

\* Mutant of map_result: the two variants exchanged.
map_result_flipped(r) ==
    IF r.tag = "Ok" THEN Err(transmute_copy(r.v, size_of_T))
    ELSE Ok(transmute_copy(r.v, size_of_T))

map_result(r) ==
    IF r.tag = "Ok" THEN Ok(transmute_copy(r.v, size_of_T))
    ELSE Err(transmute_copy(r.v, size_of_T))

(***************************************************************************)
(* The native atomics of core::sync::atomic, on the storage `cell`.        *)
(* Each returns the new storage and the primitive's result.                *)
(***************************************************************************)
AtomicU_load(cell) == [cell |-> cell, out |-> Val(cell)]

AtomicU_store(cell, v) == [cell |-> v, out |-> Unit]

AtomicU_swap(cell, v) == [cell |-> v, out |-> Val(cell)]

AtomicU_compare_exchange(cell, current, new) ==
    IF cell = current THEN [cell |-> new, out |-> Ok(cell)]
    ELSE [cell |-> cell, out |-> Err(cell)]

\* `spurious`: the hardware's choice to fail although the comparison succeeds.
AtomicU_compare_exchange_weak(cell, current, new, spurious) ==
    IF cell = current /\ ~spurious THEN [cell |-> new, out |-> Ok(cell)]
    ELSE [cell |-> cell, out |-> Err(cell)]

AtomicU_fetch_add(cell, v) == [cell |-> wrapping_add(cell, v), out |-> Val(cell)]

AtomicU_fetch_sub(cell, v) == [cell |-> wrapping_sub(cell, v), out |-> Val(cell)]

AtomicU_fetch_and(cell, v) == [cell |-> bitand(cell, v), out |-> Val(cell)]

AtomicU_fetch_or(cell, v) == [cell |-> bitor(cell, v), out |-> Val(cell)]

AtomicU_fetch_xor(cell, v) == [cell |-> bitxor(cell, v), out |-> Val(cell)]

AtomicU(fn, cell, args, spurious) ==
    CASE fn = "load" -> AtomicU_load(cell)
      [] fn = "store" -> AtomicU_store(cell, args[1])
      [] fn = "swap" -> AtomicU_swap(cell, args[1])
      [] fn = "compare_exchange" -> AtomicU_compare_exchange(cell, args[1], args[2])
      [] fn = "compare_exchange_weak" ->
            AtomicU_compare_exchange_weak(cell, args[1], args[2], spurious)
      [] fn = "fetch_add" -> AtomicU_fetch_add(cell, args[1])
      [] fn = "fetch_sub" -> AtomicU_fetch_sub(cell, args[1])
      [] fn = "fetch_and" -> AtomicU_fetch_and(cell, args[1])
      [] fn = "fetch_or" -> AtomicU_fetch_or(cell, args[1])
      [] fn = "fetch_xor" -> AtomicU_fetch_xor(cell, args[1])

\* Bytes of the native atomic type named `recv`.
WidthOf(recv) ==
    CASE recv = "AtomicU8" -> 1
      [] recv = "AtomicU16" -> 2
      [] recv = "AtomicU32" -> 4
      [] recv = "AtomicU64" -> 8

(***************************************************************************)
(* What a layer function does with a call: the receiver it invokes, the    *)
(* method, the arguments and orderings it passes, and how it maps the      *)
(* result back.                                                            *)
(***************************************************************************)
Native(recv, fn, args, orders, bridge) ==
    [recv |-> recv, fn |-> fn, args |-> args, orders |-> orders, bridge |-> bridge]

Forward(fn, args) ==
    [recv |-> "fallback", fn |-> fn, args |-> args, orders |-> <<>>, bridge |-> "none"]

(***************************************************************************)
(* The layer's functions (src/src/nightly.rs).  Each arm of a match is     *)
(* written out: the size pattern, the cfg(target_has_atomic) attribute and *)
(* the alignment guard.                                                    *)
(***************************************************************************)
\* Mutant of atomic_is_lock_free: the arms lack the alignment guard.
atomic_is_lock_free_unaligned ==
    CASE size_of_T = 1 /\ 8 \in target_has_atomic -> TRUE
      [] size_of_T = 2 /\ 16 \in target_has_atomic -> TRUE
      [] size_of_T = 4 /\ 32 \in target_has_atomic -> TRUE
      [] size_of_T = 8 /\ 64 \in target_has_atomic -> TRUE
      [] OTHER -> FALSE

atomic_is_lock_free ==
    CASE size_of_T = 1 /\ 8 \in target_has_atomic /\ align_of_T >= 1 -> TRUE
      [] size_of_T = 2 /\ 16 \in target_has_atomic /\ align_of_T >= 2 -> TRUE
      [] size_of_T = 4 /\ 32 \in target_has_atomic /\ align_of_T >= 4 -> TRUE
      [] size_of_T = 8 /\ 64 \in target_has_atomic /\ align_of_T >= 8 -> TRUE
      [] OTHER -> FALSE

\* Mutant of atomic_load: an ordering that is invalid for a load is rejected.
atomic_load_validates(order) ==
    IF order \in {"Release", "AcqRel"} THEN Forward("none", <<>>)
    ELSE
    CASE size_of_T = 1 /\ 8 \in target_has_atomic /\ align_of_T >= 1 ->
            Native("AtomicU8", "load", <<>>,
                   <<order>>, "transmute_copy")
      [] size_of_T = 2 /\ 16 \in target_has_atomic /\ align_of_T >= 2 ->
            Native("AtomicU16", "load", <<>>,
                   <<order>>, "transmute_copy")
      [] size_of_T = 4 /\ 32 \in target_has_atomic /\ align_of_T >= 4 ->
            Native("AtomicU32", "load", <<>>,
                   <<order>>, "transmute_copy")
      [] size_of_T = 8 /\ 64 \in target_has_atomic /\ align_of_T >= 8 ->
            Native("AtomicU64", "load", <<>>,
                   <<order>>, "transmute_copy")
      [] OTHER -> Forward("atomic_load", <<>>)

\* Mutant of atomic_load: the native arms call swap(0).
atomic_load_swaps_zero(order) ==
    CASE size_of_T = 1 /\ 8 \in target_has_atomic /\ align_of_T >= 1 ->
            Native("AtomicU8", "swap", <<[i \in 1..1 |-> 0]>>,
                   <<order>>, "transmute_copy")
      [] size_of_T = 2 /\ 16 \in target_has_atomic /\ align_of_T >= 2 ->
            Native("AtomicU16", "swap", <<[i \in 1..2 |-> 0]>>,
                   <<order>>, "transmute_copy")
      [] size_of_T = 4 /\ 32 \in target_has_atomic /\ align_of_T >= 4 ->
            Native("AtomicU32", "swap", <<[i \in 1..4 |-> 0]>>,
                   <<order>>, "transmute_copy")
      [] size_of_T = 8 /\ 64 \in target_has_atomic /\ align_of_T >= 8 ->
            Native("AtomicU64", "swap", <<[i \in 1..8 |-> 0]>>,
                   <<order>>, "transmute_copy")
      [] OTHER -> Forward("atomic_load", <<>>)

atomic_load(order) ==
    CASE size_of_T = 1 /\ 8 \in target_has_atomic /\ align_of_T >= 1 ->
            Native("AtomicU8", "load", <<>>,
                   <<order>>, "transmute_copy")
      [] size_of_T = 2 /\ 16 \in target_has_atomic /\ align_of_T >= 2 ->
            Native("AtomicU16", "load", <<>>,
                   <<order>>, "transmute_copy")
      [] size_of_T = 4 /\ 32 \in target_has_atomic /\ align_of_T >= 4 ->
            Native("AtomicU32", "load", <<>>,
                   <<order>>, "transmute_copy")
      [] size_of_T = 8 /\ 64 \in target_has_atomic /\ align_of_T >= 8 ->
            Native("AtomicU64", "load", <<>>,
                   <<order>>, "transmute_copy")
      [] OTHER -> Forward("atomic_load", <<>>)

\* Mutant of atomic_store: the arms below eight bytes store through the atomic
\* of twice the width, the value zero-extended.
atomic_store_wide(val, order) ==
    CASE size_of_T = 1 /\ 8 \in target_has_atomic /\ align_of_T >= 1 ->
            Native("AtomicU16", "store", <<transmute_copy(val, 1) \o <<0>>>>,
                   <<order>>, "unit")
      [] size_of_T = 2 /\ 16 \in target_has_atomic /\ align_of_T >= 2 ->
            Native("AtomicU32", "store", <<transmute_copy(val, 2) \o <<0, 0>>>>,
                   <<order>>, "unit")
      [] size_of_T = 4 /\ 32 \in target_has_atomic /\ align_of_T >= 4 ->
            Native("AtomicU64", "store", <<transmute_copy(val, 4) \o <<0, 0, 0, 0>>>>,
                   <<order>>, "unit")
      [] size_of_T = 8 /\ 64 \in target_has_atomic /\ align_of_T >= 8 ->
            Native("AtomicU64", "store", <<transmute_copy(val, 8)>>,
                   <<order>>, "unit")
      [] OTHER -> Forward("atomic_store", <<val>>)

\* Mutant of atomic_store: the native arms pass Ordering::Relaxed.
atomic_store_relaxed(val, order) ==
    CASE size_of_T = 1 /\ 8 \in target_has_atomic /\ align_of_T >= 1 ->
            Native("AtomicU8", "store", <<transmute_copy(val, 1)>>,
                   <<"Relaxed">>, "unit")
      [] size_of_T = 2 /\ 16 \in target_has_atomic /\ align_of_T >= 2 ->
            Native("AtomicU16", "store", <<transmute_copy(val, 2)>>,
                   <<"Relaxed">>, "unit")
      [] size_of_T = 4 /\ 32 \in target_has_atomic /\ align_of_T >= 4 ->
            Native("AtomicU32", "store", <<transmute_copy(val, 4)>>,
                   <<"Relaxed">>, "unit")
      [] size_of_T = 8 /\ 64 \in target_has_atomic /\ align_of_T >= 8 ->
            Native("AtomicU64", "store", <<transmute_copy(val, 8)>>,
                   <<"Relaxed">>, "unit")
      [] OTHER -> Forward("atomic_store", <<val>>)

atomic_store(val, order) ==
    CASE size_of_T = 1 /\ 8 \in target_has_atomic /\ align_of_T >= 1 ->
            Native("AtomicU8", "store", <<transmute_copy(val, 1)>>,
                   <<order>>, "unit")
      [] size_of_T = 2 /\ 16 \in target_has_atomic /\ align_of_T >= 2 ->
            Native("AtomicU16", "store", <<transmute_copy(val, 2)>>,
                   <<order>>, "unit")
      [] size_of_T = 4 /\ 32 \in target_has_atomic /\ align_of_T >= 4 ->
            Native("AtomicU32", "store", <<transmute_copy(val, 4)>>,
                   <<order>>, "unit")
      [] size_of_T = 8 /\ 64 \in target_has_atomic /\ align_of_T >= 8 ->
            Native("AtomicU64", "store", <<transmute_copy(val, 8)>>,
                   <<order>>, "unit")
      [] OTHER -> Forward("atomic_store", <<val>>)

\* Mutant of atomic_swap: the native arms call load.
atomic_swap_loads(val, order) ==
    CASE size_of_T = 1 /\ 8 \in target_has_atomic /\ align_of_T >= 1 ->
            Native("AtomicU8", "load", <<transmute_copy(val, 1)>>,
                   <<order>>, "transmute_copy")
      [] size_of_T = 2 /\ 16 \in target_has_atomic /\ align_of_T >= 2 ->
            Native("AtomicU16", "load", <<transmute_copy(val, 2)>>,
                   <<order>>, "transmute_copy")
      [] size_of_T = 4 /\ 32 \in target_has_atomic /\ align_of_T >= 4 ->
            Native("AtomicU32", "load", <<transmute_copy(val, 4)>>,
                   <<order>>, "transmute_copy")
      [] size_of_T = 8 /\ 64 \in target_has_atomic /\ align_of_T >= 8 ->
            Native("AtomicU64", "load", <<transmute_copy(val, 8)>>,
                   <<order>>, "transmute_copy")
      [] OTHER -> Forward("atomic_swap", <<val>>)

\* Mutant of atomic_swap: the fallback arm calls fallback::atomic_store.
atomic_swap_forwards_store(val, order) ==
    CASE size_of_T = 1 /\ 8 \in target_has_atomic /\ align_of_T >= 1 ->
            Native("AtomicU8", "swap", <<transmute_copy(val, 1)>>,
                   <<order>>, "transmute_copy")
      [] size_of_T = 2 /\ 16 \in target_has_atomic /\ align_of_T >= 2 ->
            Native("AtomicU16", "swap", <<transmute_copy(val, 2)>>,
                   <<order>>, "transmute_copy")
      [] size_of_T = 4 /\ 32 \in target_has_atomic /\ align_of_T >= 4 ->
            Native("AtomicU32", "swap", <<transmute_copy(val, 4)>>,
                   <<order>>, "transmute_copy")
      [] size_of_T = 8 /\ 64 \in target_has_atomic /\ align_of_T >= 8 ->
            Native("AtomicU64", "swap", <<transmute_copy(val, 8)>>,
                   <<order>>, "transmute_copy")
      [] OTHER -> Forward("atomic_store", <<val>>)

atomic_swap(val, order) ==
    CASE size_of_T = 1 /\ 8 \in target_has_atomic /\ align_of_T >= 1 ->
            Native("AtomicU8", "swap", <<transmute_copy(val, 1)>>,
                   <<order>>, "transmute_copy")
      [] size_of_T = 2 /\ 16 \in target_has_atomic /\ align_of_T >= 2 ->
            Native("AtomicU16", "swap", <<transmute_copy(val, 2)>>,
                   <<order>>, "transmute_copy")
      [] size_of_T = 4 /\ 32 \in target_has_atomic /\ align_of_T >= 4 ->
            Native("AtomicU32", "swap", <<transmute_copy(val, 4)>>,
                   <<order>>, "transmute_copy")
      [] size_of_T = 8 /\ 64 \in target_has_atomic /\ align_of_T >= 8 ->
            Native("AtomicU64", "swap", <<transmute_copy(val, 8)>>,
                   <<order>>, "transmute_copy")
      [] OTHER -> Forward("atomic_swap", <<val>>)

\* Mutant of atomic_compare_exchange: the native arms pass failure and success exchanged.
atomic_compare_exchange_orders_swapped(current, new, success, failure) ==
    CASE size_of_T = 1 /\ 8 \in target_has_atomic /\ align_of_T >= 1 ->
            Native("AtomicU8", "compare_exchange", <<transmute_copy(current, 1), transmute_copy(new, 1)>>,
                   <<failure, success>>, "map_result")
      [] size_of_T = 2 /\ 16 \in target_has_atomic /\ align_of_T >= 2 ->
            Native("AtomicU16", "compare_exchange", <<transmute_copy(current, 2), transmute_copy(new, 2)>>,
                   <<failure, success>>, "map_result")
      [] size_of_T = 4 /\ 32 \in target_has_atomic /\ align_of_T >= 4 ->
            Native("AtomicU32", "compare_exchange", <<transmute_copy(current, 4), transmute_copy(new, 4)>>,
                   <<failure, success>>, "map_result")
      [] size_of_T = 8 /\ 64 \in target_has_atomic /\ align_of_T >= 8 ->
            Native("AtomicU64", "compare_exchange", <<transmute_copy(current, 8), transmute_copy(new, 8)>>,
                   <<failure, success>>, "map_result")
      [] OTHER -> Forward("atomic_compare_exchange", <<current, new>>)

\* Mutant of atomic_compare_exchange: the arms lack the alignment guard.
atomic_compare_exchange_unaligned(current, new, success, failure) ==
    CASE size_of_T = 1 /\ 8 \in target_has_atomic ->
            Native("AtomicU8", "compare_exchange", <<transmute_copy(current, 1), transmute_copy(new, 1)>>,
                   <<success, failure>>, "map_result")
      [] size_of_T = 2 /\ 16 \in target_has_atomic ->
            Native("AtomicU16", "compare_exchange", <<transmute_copy(current, 2), transmute_copy(new, 2)>>,
                   <<success, failure>>, "map_result")
      [] size_of_T = 4 /\ 32 \in target_has_atomic ->
            Native("AtomicU32", "compare_exchange", <<transmute_copy(current, 4), transmute_copy(new, 4)>>,
                   <<success, failure>>, "map_result")
      [] size_of_T = 8 /\ 64 \in target_has_atomic ->
            Native("AtomicU64", "compare_exchange", <<transmute_copy(current, 8), transmute_copy(new, 8)>>,
                   <<success, failure>>, "map_result")
      [] OTHER -> Forward("atomic_compare_exchange", <<current, new>>)

atomic_compare_exchange(current, new, success, failure) ==
    CASE size_of_T = 1 /\ 8 \in target_has_atomic /\ align_of_T >= 1 ->
            Native("AtomicU8", "compare_exchange", <<transmute_copy(current, 1), transmute_copy(new, 1)>>,
                   <<success, failure>>, "map_result")
      [] size_of_T = 2 /\ 16 \in target_has_atomic /\ align_of_T >= 2 ->
            Native("AtomicU16", "compare_exchange", <<transmute_copy(current, 2), transmute_copy(new, 2)>>,
                   <<success, failure>>, "map_result")
      [] size_of_T = 4 /\ 32 \in target_has_atomic /\ align_of_T >= 4 ->
            Native("AtomicU32", "compare_exchange", <<transmute_copy(current, 4), transmute_copy(new, 4)>>,
                   <<success, failure>>, "map_result")
      [] size_of_T = 8 /\ 64 \in target_has_atomic /\ align_of_T >= 8 ->
            Native("AtomicU64", "compare_exchange", <<transmute_copy(current, 8), transmute_copy(new, 8)>>,
                   <<success, failure>>, "map_result")
      [] OTHER -> Forward("atomic_compare_exchange", <<current, new>>)

\* Mutant of atomic_compare_exchange_weak: the fallback arm calls fallback::atomic_swap with new.
atomic_compare_exchange_weak_fallback_swaps(current, new, success, failure) ==
    CASE size_of_T = 1 /\ 8 \in target_has_atomic /\ align_of_T >= 1 ->
            Native("AtomicU8", "compare_exchange_weak", <<transmute_copy(current, 1), transmute_copy(new, 1)>>,
                   <<success, failure>>, "map_result")
      [] size_of_T = 2 /\ 16 \in target_has_atomic /\ align_of_T >= 2 ->
            Native("AtomicU16", "compare_exchange_weak", <<transmute_copy(current, 2), transmute_copy(new, 2)>>,
                   <<success, failure>>, "map_result")
      [] size_of_T = 4 /\ 32 \in target_has_atomic /\ align_of_T >= 4 ->
            Native("AtomicU32", "compare_exchange_weak", <<transmute_copy(current, 4), transmute_copy(new, 4)>>,
                   <<success, failure>>, "map_result")
      [] size_of_T = 8 /\ 64 \in target_has_atomic /\ align_of_T >= 8 ->
            Native("AtomicU64", "compare_exchange_weak", <<transmute_copy(current, 8), transmute_copy(new, 8)>>,
                   <<success, failure>>, "map_result")
      [] OTHER -> Forward("atomic_swap", <<new>>)

\* Mutant of atomic_compare_exchange_weak: the native arms pass new and current exchanged.
atomic_compare_exchange_weak_swapped(current, new, success, failure) ==
    CASE size_of_T = 1 /\ 8 \in target_has_atomic /\ align_of_T >= 1 ->
            Native("AtomicU8", "compare_exchange_weak", <<transmute_copy(new, 1), transmute_copy(current, 1)>>,
                   <<success, failure>>, "map_result")
      [] size_of_T = 2 /\ 16 \in target_has_atomic /\ align_of_T >= 2 ->
            Native("AtomicU16", "compare_exchange_weak", <<transmute_copy(new, 2), transmute_copy(current, 2)>>,
                   <<success, failure>>, "map_result")
      [] size_of_T = 4 /\ 32 \in target_has_atomic /\ align_of_T >= 4 ->
            Native("AtomicU32", "compare_exchange_weak", <<transmute_copy(new, 4), transmute_copy(current, 4)>>,
                   <<success, failure>>, "map_result")
      [] size_of_T = 8 /\ 64 \in target_has_atomic /\ align_of_T >= 8 ->
            Native("AtomicU64", "compare_exchange_weak", <<transmute_copy(new, 8), transmute_copy(current, 8)>>,
                   <<success, failure>>, "map_result")
      [] OTHER -> Forward("atomic_compare_exchange", <<current, new>>)

atomic_compare_exchange_weak(current, new, success, failure) ==
    CASE size_of_T = 1 /\ 8 \in target_has_atomic /\ align_of_T >= 1 ->
            Native("AtomicU8", "compare_exchange_weak", <<transmute_copy(current, 1), transmute_copy(new, 1)>>,
                   <<success, failure>>, "map_result")
      [] size_of_T = 2 /\ 16 \in target_has_atomic /\ align_of_T >= 2 ->
            Native("AtomicU16", "compare_exchange_weak", <<transmute_copy(current, 2), transmute_copy(new, 2)>>,
                   <<success, failure>>, "map_result")
      [] size_of_T = 4 /\ 32 \in target_has_atomic /\ align_of_T >= 4 ->
            Native("AtomicU32", "compare_exchange_weak", <<transmute_copy(current, 4), transmute_copy(new, 4)>>,
                   <<success, failure>>, "map_result")
      [] size_of_T = 8 /\ 64 \in target_has_atomic /\ align_of_T >= 8 ->
            Native("AtomicU64", "compare_exchange_weak", <<transmute_copy(current, 8), transmute_copy(new, 8)>>,
                   <<success, failure>>, "map_result")
      [] OTHER -> Forward("atomic_compare_exchange", <<current, new>>)

\* Mutant of atomic_add: every type is sent to the fallback.
atomic_add_locks(val, order) == Forward("atomic_add", <<val>>)

\* Mutant of atomic_add: the native arms call swap.
atomic_add_swaps(val, order) ==
    CASE size_of_T = 1 /\ 8 \in target_has_atomic /\ align_of_T >= 1 ->
            Native("AtomicU8", "swap", <<transmute_copy(val, 1)>>,
                   <<order>>, "transmute_copy")
      [] size_of_T = 2 /\ 16 \in target_has_atomic /\ align_of_T >= 2 ->
            Native("AtomicU16", "swap", <<transmute_copy(val, 2)>>,
                   <<order>>, "transmute_copy")
      [] size_of_T = 4 /\ 32 \in target_has_atomic /\ align_of_T >= 4 ->
            Native("AtomicU32", "swap", <<transmute_copy(val, 4)>>,
                   <<order>>, "transmute_copy")
      [] size_of_T = 8 /\ 64 \in target_has_atomic /\ align_of_T >= 8 ->
            Native("AtomicU64", "swap", <<transmute_copy(val, 8)>>,
                   <<order>>, "transmute_copy")
      [] OTHER -> Forward("atomic_add", <<val>>)

atomic_add(val, order) ==
    CASE size_of_T = 1 /\ 8 \in target_has_atomic /\ align_of_T >= 1 ->
            Native("AtomicU8", "fetch_add", <<transmute_copy(val, 1)>>,
                   <<order>>, "transmute_copy")
      [] size_of_T = 2 /\ 16 \in target_has_atomic /\ align_of_T >= 2 ->
            Native("AtomicU16", "fetch_add", <<transmute_copy(val, 2)>>,
                   <<order>>, "transmute_copy")
      [] size_of_T = 4 /\ 32 \in target_has_atomic /\ align_of_T >= 4 ->
            Native("AtomicU32", "fetch_add", <<transmute_copy(val, 4)>>,
                   <<order>>, "transmute_copy")
      [] size_of_T = 8 /\ 64 \in target_has_atomic /\ align_of_T >= 8 ->
            Native("AtomicU64", "fetch_add", <<transmute_copy(val, 8)>>,
                   <<order>>, "transmute_copy")
      [] OTHER -> Forward("atomic_add", <<val>>)

\* Mutant of atomic_sub: the native arms call fetch_add.
atomic_sub_adds(val, order) ==
    CASE size_of_T = 1 /\ 8 \in target_has_atomic /\ align_of_T >= 1 ->
            Native("AtomicU8", "fetch_add", <<transmute_copy(val, 1)>>,
                   <<order>>, "transmute_copy")
      [] size_of_T = 2 /\ 16 \in target_has_atomic /\ align_of_T >= 2 ->
            Native("AtomicU16", "fetch_add", <<transmute_copy(val, 2)>>,
                   <<order>>, "transmute_copy")
      [] size_of_T = 4 /\ 32 \in target_has_atomic /\ align_of_T >= 4 ->
            Native("AtomicU32", "fetch_add", <<transmute_copy(val, 4)>>,
                   <<order>>, "transmute_copy")
      [] size_of_T = 8 /\ 64 \in target_has_atomic /\ align_of_T >= 8 ->
            Native("AtomicU64", "fetch_add", <<transmute_copy(val, 8)>>,
                   <<order>>, "transmute_copy")
      [] OTHER -> Forward("atomic_sub", <<val>>)

atomic_sub(val, order) ==
    CASE size_of_T = 1 /\ 8 \in target_has_atomic /\ align_of_T >= 1 ->
            Native("AtomicU8", "fetch_sub", <<transmute_copy(val, 1)>>,
                   <<order>>, "transmute_copy")
      [] size_of_T = 2 /\ 16 \in target_has_atomic /\ align_of_T >= 2 ->
            Native("AtomicU16", "fetch_sub", <<transmute_copy(val, 2)>>,
                   <<order>>, "transmute_copy")
      [] size_of_T = 4 /\ 32 \in target_has_atomic /\ align_of_T >= 4 ->
            Native("AtomicU32", "fetch_sub", <<transmute_copy(val, 4)>>,
                   <<order>>, "transmute_copy")
      [] size_of_T = 8 /\ 64 \in target_has_atomic /\ align_of_T >= 8 ->
            Native("AtomicU64", "fetch_sub", <<transmute_copy(val, 8)>>,
                   <<order>>, "transmute_copy")
      [] OTHER -> Forward("atomic_sub", <<val>>)

\* Mutant of atomic_and: the fallback arm calls fallback::atomic_or.
atomic_and_forwards_or(val, order) ==
    CASE size_of_T = 1 /\ 8 \in target_has_atomic /\ align_of_T >= 1 ->
            Native("AtomicU8", "fetch_and", <<transmute_copy(val, 1)>>,
                   <<order>>, "transmute_copy")
      [] size_of_T = 2 /\ 16 \in target_has_atomic /\ align_of_T >= 2 ->
            Native("AtomicU16", "fetch_and", <<transmute_copy(val, 2)>>,
                   <<order>>, "transmute_copy")
      [] size_of_T = 4 /\ 32 \in target_has_atomic /\ align_of_T >= 4 ->
            Native("AtomicU32", "fetch_and", <<transmute_copy(val, 4)>>,
                   <<order>>, "transmute_copy")
      [] size_of_T = 8 /\ 64 \in target_has_atomic /\ align_of_T >= 8 ->
            Native("AtomicU64", "fetch_and", <<transmute_copy(val, 8)>>,
                   <<order>>, "transmute_copy")
      [] OTHER -> Forward("atomic_or", <<val>>)

atomic_and(val, order) ==
    CASE size_of_T = 1 /\ 8 \in target_has_atomic /\ align_of_T >= 1 ->
            Native("AtomicU8", "fetch_and", <<transmute_copy(val, 1)>>,
                   <<order>>, "transmute_copy")
      [] size_of_T = 2 /\ 16 \in target_has_atomic /\ align_of_T >= 2 ->
            Native("AtomicU16", "fetch_and", <<transmute_copy(val, 2)>>,
                   <<order>>, "transmute_copy")
      [] size_of_T = 4 /\ 32 \in target_has_atomic /\ align_of_T >= 4 ->
            Native("AtomicU32", "fetch_and", <<transmute_copy(val, 4)>>,
                   <<order>>, "transmute_copy")
      [] size_of_T = 8 /\ 64 \in target_has_atomic /\ align_of_T >= 8 ->
            Native("AtomicU64", "fetch_and", <<transmute_copy(val, 8)>>,
                   <<order>>, "transmute_copy")
      [] OTHER -> Forward("atomic_and", <<val>>)

\* Mutant of atomic_or: the native arms call fetch_xor.
atomic_or_xors(val, order) ==
    CASE size_of_T = 1 /\ 8 \in target_has_atomic /\ align_of_T >= 1 ->
            Native("AtomicU8", "fetch_xor", <<transmute_copy(val, 1)>>,
                   <<order>>, "transmute_copy")
      [] size_of_T = 2 /\ 16 \in target_has_atomic /\ align_of_T >= 2 ->
            Native("AtomicU16", "fetch_xor", <<transmute_copy(val, 2)>>,
                   <<order>>, "transmute_copy")
      [] size_of_T = 4 /\ 32 \in target_has_atomic /\ align_of_T >= 4 ->
            Native("AtomicU32", "fetch_xor", <<transmute_copy(val, 4)>>,
                   <<order>>, "transmute_copy")
      [] size_of_T = 8 /\ 64 \in target_has_atomic /\ align_of_T >= 8 ->
            Native("AtomicU64", "fetch_xor", <<transmute_copy(val, 8)>>,
                   <<order>>, "transmute_copy")
      [] OTHER -> Forward("atomic_or", <<val>>)

atomic_or(val, order) ==
    CASE size_of_T = 1 /\ 8 \in target_has_atomic /\ align_of_T >= 1 ->
            Native("AtomicU8", "fetch_or", <<transmute_copy(val, 1)>>,
                   <<order>>, "transmute_copy")
      [] size_of_T = 2 /\ 16 \in target_has_atomic /\ align_of_T >= 2 ->
            Native("AtomicU16", "fetch_or", <<transmute_copy(val, 2)>>,
                   <<order>>, "transmute_copy")
      [] size_of_T = 4 /\ 32 \in target_has_atomic /\ align_of_T >= 4 ->
            Native("AtomicU32", "fetch_or", <<transmute_copy(val, 4)>>,
                   <<order>>, "transmute_copy")
      [] size_of_T = 8 /\ 64 \in target_has_atomic /\ align_of_T >= 8 ->
            Native("AtomicU64", "fetch_or", <<transmute_copy(val, 8)>>,
                   <<order>>, "transmute_copy")
      [] OTHER -> Forward("atomic_or", <<val>>)

\* Mutant of atomic_xor: the native arms call fetch_or.
atomic_xor_ors(val, order) ==
    CASE size_of_T = 1 /\ 8 \in target_has_atomic /\ align_of_T >= 1 ->
            Native("AtomicU8", "fetch_or", <<transmute_copy(val, 1)>>,
                   <<order>>, "transmute_copy")
      [] size_of_T = 2 /\ 16 \in target_has_atomic /\ align_of_T >= 2 ->
            Native("AtomicU16", "fetch_or", <<transmute_copy(val, 2)>>,
                   <<order>>, "transmute_copy")
      [] size_of_T = 4 /\ 32 \in target_has_atomic /\ align_of_T >= 4 ->
            Native("AtomicU32", "fetch_or", <<transmute_copy(val, 4)>>,
                   <<order>>, "transmute_copy")
      [] size_of_T = 8 /\ 64 \in target_has_atomic /\ align_of_T >= 8 ->
            Native("AtomicU64", "fetch_or", <<transmute_copy(val, 8)>>,
                   <<order>>, "transmute_copy")
      [] OTHER -> Forward("atomic_xor", <<val>>)

atomic_xor(val, order) ==
    CASE size_of_T = 1 /\ 8 \in target_has_atomic /\ align_of_T >= 1 ->
            Native("AtomicU8", "fetch_xor", <<transmute_copy(val, 1)>>,
                   <<order>>, "transmute_copy")
      [] size_of_T = 2 /\ 16 \in target_has_atomic /\ align_of_T >= 2 ->
            Native("AtomicU16", "fetch_xor", <<transmute_copy(val, 2)>>,
                   <<order>>, "transmute_copy")
      [] size_of_T = 4 /\ 32 \in target_has_atomic /\ align_of_T >= 4 ->
            Native("AtomicU32", "fetch_xor", <<transmute_copy(val, 4)>>,
                   <<order>>, "transmute_copy")
      [] size_of_T = 8 /\ 64 \in target_has_atomic /\ align_of_T >= 8 ->
            Native("AtomicU64", "fetch_xor", <<transmute_copy(val, 8)>>,
                   <<order>>, "transmute_copy")
      [] OTHER -> Forward("atomic_xor", <<val>>)


Layer(req) ==
    CASE req.op = "load" -> atomic_load(req.o[1])
      [] req.op = "store" -> atomic_store(req.a[1], req.o[1])
      [] req.op = "swap" -> atomic_swap(req.a[1], req.o[1])
      [] req.op = "compare_exchange" ->
            atomic_compare_exchange(req.a[1], req.a[2], req.o[1], req.o[2])
      [] req.op = "compare_exchange_weak" ->
            atomic_compare_exchange_weak(req.a[1], req.a[2], req.o[1], req.o[2])
      [] req.op = "fetch_add" -> atomic_add(req.a[1], req.o[1])
      [] req.op = "fetch_sub" -> atomic_sub(req.a[1], req.o[1])
      [] req.op = "fetch_and" -> atomic_and(req.a[1], req.o[1])
      [] req.op = "fetch_or" -> atomic_or(req.a[1], req.o[1])
      [] req.op = "fetch_xor" -> atomic_xor(req.a[1], req.o[1])

\* How a native arm maps the primitive's result back to the generic type.
Bridge(bridge, out) ==
    CASE bridge = "transmute_copy" -> Val(transmute_copy(out.v, size_of_T))
      [] bridge = "map_result" -> map_result(out)
      [] bridge = "unit" -> out
      [] bridge = "none" -> out

\* Mutant of ExecNative: only the first byte of the new value reaches memory.
ExecNative_torn(d, m, spurious) ==
    LET w == WidthOf(d.recv)
        r == AtomicU(d.fn, SubSeq(m, 1, w), d.args, spurious)
    IN  [mem |-> <<r.cell[1]>> \o SubSeq(m, 2, Len(m)),
         out |-> r.out,
         ret |-> Bridge(d.bridge, r.out)]

\* A native arm runs as one hardware instruction on the WidthOf(recv) bytes at dst.
ExecNative(d, m, spurious) ==
    LET w == WidthOf(d.recv)
        r == AtomicU(d.fn, SubSeq(m, 1, w), d.args, spurious)
    IN  [mem |-> r.cell \o SubSeq(m, w + 1, Len(m)),
         out |-> r.out,
         ret |-> Bridge(d.bridge, r.out)]

(***************************************************************************)
(* The fallback subsystem (mod fallback): the same operations on the       *)
(* generic type, each run under a lock.  `cur` is the value read at dst.   *)
(***************************************************************************)
fallback_atomic_load(cur) == [cell |-> cur, out |-> Val(cur)]

fallback_atomic_store(cur, val) == [cell |-> val, out |-> Unit]

fallback_atomic_swap(cur, val) == [cell |-> val, out |-> Val(cur)]

fallback_atomic_compare_exchange(cur, current, new) ==
    IF cur = current THEN [cell |-> new, out |-> Ok(cur)]
    ELSE [cell |-> cur, out |-> Err(cur)]

fallback_atomic_add(cur, val) == [cell |-> wrapping_add(cur, val), out |-> Val(cur)]

fallback_atomic_sub(cur, val) == [cell |-> wrapping_sub(cur, val), out |-> Val(cur)]

fallback_atomic_and(cur, val) == [cell |-> bitand(cur, val), out |-> Val(cur)]

fallback_atomic_or(cur, val) == [cell |-> bitor(cur, val), out |-> Val(cur)]

fallback_atomic_xor(cur, val) == [cell |-> bitxor(cur, val), out |-> Val(cur)]

fallback(fn, cur, args) ==
    CASE fn = "atomic_load" -> fallback_atomic_load(cur)
      [] fn = "atomic_store" -> fallback_atomic_store(cur, args[1])
      [] fn = "atomic_swap" -> fallback_atomic_swap(cur, args[1])
      [] fn = "atomic_compare_exchange" ->
            fallback_atomic_compare_exchange(cur, args[1], args[2])
      [] fn = "atomic_add" -> fallback_atomic_add(cur, args[1])
      [] fn = "atomic_sub" -> fallback_atomic_sub(cur, args[1])
      [] fn = "atomic_and" -> fallback_atomic_and(cur, args[1])
      [] fn = "atomic_or" -> fallback_atomic_or(cur, args[1])
      [] fn = "atomic_xor" -> fallback_atomic_xor(cur, args[1])

(***************************************************************************)
(* Inputs: types, targets, values and requests.                            *)
(***************************************************************************)
\* The builds tried: the size and alignment of the generic type (the size of a
\* type is a multiple of its alignment), the widths the target declares and
\* its byte order.
Build(size, align, has, endian) ==
    [size |-> size, align |-> align, has |-> has, endian |-> endian]

Builds ==
    {Build(1, 1, {8, 16, 32, 64}, "little"),   \* u8
     Build(2, 2, {8, 16}, "little"),           \* u16, a 16-bit target
     Build(4, 4, {8, 16, 32}, "big"),          \* u32, a 32-bit big-endian target
     Build(8, 8, {8, 16, 32, 64}, "little"),   \* u64
     Build(8, 4, {8, 16, 32, 64}, "little"),   \* u64 aligned to 4
     Build(8, 8, {8, 16, 32}, "big"),          \* u64, no 64-bit atomics
     Build(1, 1, {}, "little"),                \* u8, no atomics at all
     Build(2, 1, {8, 16, 32, 64}, "big"),      \* [u8; 2]
     Build(3, 1, {8, 16, 32, 64}, "little"),   \* [u8; 3]
     Build(16, 8, {8, 16, 32, 64}, "little")}  \* u128

Endians == {"little", "big"}

Zero(n) == [i \in 1..n |-> 0]

Full(n) == [i \in 1..n |-> 255]

Lo(n, b) == [i \in 1..n |-> IF i = 1 THEN b ELSE 0]

TVals(n) == {Lo(n, 10), Full(n)}

InitVals(n) == {Lo(n, 10), Lo(n, 250)}

\* Wrapping<T>: Add/Sub and the bit operators exist for the primitive integers.
IsInteger == size_of_T \in {1, 2, 4, 8, 16}

LoadOrders == {"Relaxed", "Acquire", "SeqCst"}

StoreOrders == {"Relaxed", "Release", "SeqCst"}

\* <<success, failure>>: the failure ordering is a load ordering no stronger
\* than the success ordering.
CasOrders == {<<"Relaxed", "Relaxed">>, <<"Acquire", "Relaxed">>, <<"Acquire", "Acquire">>,
              <<"Release", "Relaxed">>, <<"AcqRel", "Relaxed">>, <<"AcqRel", "Acquire">>,
              <<"SeqCst", "Relaxed">>, <<"SeqCst", "Acquire">>, <<"SeqCst", "SeqCst">>}

Request(op, a, o) == [op |-> op, a |-> a, o |-> o]

Requests(vals, lo, so, rmwo, caso) ==
    {Request("load", <<>>, <<o>>) : o \in lo}
      \cup {Request("store", <<v>>, <<o>>) : v \in vals, o \in so}
      \cup {Request("swap", <<v>>, <<o>>) : v \in vals, o \in rmwo}
      \cup {Request(op, <<c, n>>, o) :
              op \in {"compare_exchange", "compare_exchange_weak"},
              c \in vals, n \in vals, o \in caso}
      \cup (IF IsInteger
            THEN {Request(op, <<v>>, <<o>>) :
                    op \in {"fetch_add", "fetch_sub", "fetch_and", "fetch_or", "fetch_xor"},
                    v \in vals, o \in rmwo}
            ELSE {})

(***************************************************************************)
(* The system: threads calling the layer on one location.                  *)
(***************************************************************************)
NoEvent ==
    [t |-> 0, op |-> "none", a |-> <<>>, recv |-> "none", fn |-> "none", args |-> <<>>,
     pre |-> <<>>, post |-> <<>>, out |-> Unit, ret |-> Unit]

NoCall == [req |-> Request("none", <<>>, <<>>), d |-> Forward("none", <<>>)]

NoRaw == [cell |-> <<>>, out |-> Unit]

Event(t, req, d, pre, post, out, ret) ==
    [t |-> t, op |-> req.op, a |-> req.a, recv |-> d.recv, fn |-> d.fn, args |-> d.args,
     pre |-> pre, post |-> post, out |-> out, ret |-> ret]

InitBuild ==
    \E b \in Builds :
        /\ size_of_T = b.size
        /\ align_of_T = b.align
        /\ target_has_atomic = b.has
        /\ target_endian = b.endian

DispatchIdle == lockfree = "unknown" /\ dispatched = NoCall

CountIdle == issued = <<>> /\ rets = <<>>

PassingIdle == msgs = <<>> /\ tview = <<>> /\ regs = <<>> /\ mord = <<>>

Init ==
    /\ InitBuild
    /\ mem \in InitVals(size_of_T)
    /\ pc = [t \in Threads |-> "idle"]
    /\ pend = [t \in Threads |-> NoCall]
    /\ tmp = [t \in Threads |-> <<>>]
    /\ lock = 0
    /\ calls = 0
    /\ ev = NoEvent
    /\ raw = [cell |-> mem, out |-> Unit]
    /\ DispatchIdle
    /\ CountIdle
    /\ PassingIdle

MainRequests == Requests(TVals(size_of_T), {"SeqCst"}, {"SeqCst"}, {"SeqCst"},
                         {<<"SeqCst", "SeqCst">>})

\* The method of a raw native atomic that an operation of the layer stands for.
RawMethod(op) == op

\* A call that a native arm serves: one indivisible hardware operation.
InvokeNative(t) ==
    /\ pc[t] = "idle"
    /\ calls < MaxCalls
    /\ \E req \in MainRequests :
         \E spurious \in (IF req.op = "compare_exchange_weak" THEN BOOLEAN ELSE {FALSE}) :
           LET d == Layer(req)
               r == ExecNative(d, mem, spurious)
           IN  /\ d.recv # "fallback"
               /\ mem' = r.mem
               /\ ev' = Event(t, req, d, mem, r.mem, r.out, r.ret)
               /\ raw' = AtomicU(RawMethod(req.op), raw.cell, req.a, spurious)
    /\ calls' = calls + 1
    /\ UNCHANGED <<build, NotMain, pc, pend, tmp, lock>>

\* A call that the fallback arm serves: the layer calls into the fallback.
InvokeFallback(t) ==
    /\ pc[t] = "idle"
    /\ calls < MaxCalls
    /\ \E req \in MainRequests :
         LET d == Layer(req)
         IN  /\ d.recv = "fallback"
             /\ pend' = [pend EXCEPT ![t] = [req |-> req, d |-> d]]
    /\ pc' = [pc EXCEPT ![t] = "fb_wait"]
    /\ calls' = calls + 1
    /\ ev' = NoEvent
    /\ UNCHANGED <<build, NotMain, mem, tmp, lock, raw>>

\* The fallback takes its lock and reads the value at dst.
FallbackLock(t) ==
    /\ pc[t] = "fb_wait"
    /\ lock = 0
    /\ lock' = t
    /\ tmp' = [tmp EXCEPT ![t] = mem]
    /\ pc' = [pc EXCEPT ![t] = "fb_locked"]
    /\ ev' = NoEvent
    /\ UNCHANGED <<build, NotMain, mem, pend, calls, raw>>

\* The fallback writes the new value, releases the lock and returns; the layer
\* returns what the fallback returned.
FallbackCommit(t) ==
    /\ pc[t] = "fb_locked"
    /\ LET d == pend[t].d
           r == fallback(d.fn, tmp[t], d.args)
       IN  /\ mem' = r.cell
           /\ ev' = Event(t, pend[t].req, d, mem, r.cell, r.out, Bridge(d.bridge, r.out))
    /\ lock' = 0
    /\ tmp' = [tmp EXCEPT ![t] = <<>>]
    /\ pend' = [pend EXCEPT ![t] = NoCall]
    /\ pc' = [pc EXCEPT ![t] = "idle"]
    /\ UNCHANGED <<build, NotMain, calls, raw>>

Next ==
    \E t \in Threads :
        \/ InvokeNative(t)
        \/ InvokeFallback(t)
        \/ FallbackLock(t)
        \/ FallbackCommit(t)

Spec == Init /\ [][Next]_vars

(***************************************************************************)
(* The dispatch alone: one query and one call for every type and target.   *)
(***************************************************************************)
MaxSize == 9

AllTypes == {ty \in (0..MaxSize) \X {1, 2, 4, 8, 16} : ty[1] % ty[2] = 0}

AllTargets == SUBSET {8, 16, 32, 64}

\* The layer checks no ordering: every ordering can be passed to every operation.
DispatchRequests ==
    Requests(TVals(size_of_T), Orderings, Orderings, Orderings, Orderings \X Orderings)

InitDispatch ==
    /\ \E ty \in AllTypes : size_of_T = ty[1] /\ align_of_T = ty[2]
    /\ target_has_atomic \in AllTargets
    /\ target_endian \in Endians
    /\ mem = <<>>
    /\ pc = <<>>
    /\ pend = <<>>
    /\ tmp = <<>>
    /\ lock = 0
    /\ calls = 0
    /\ ev = NoEvent
    /\ raw = NoRaw
    /\ DispatchIdle
    /\ CountIdle
    /\ PassingIdle

Query ==
    /\ lockfree = "unknown"
    /\ lockfree' = (IF atomic_is_lock_free THEN "true" ELSE "false")
    /\ UNCHANGED <<build, NotDispatch, dispatched>>

Dispatch ==
    /\ dispatched = NoCall
    /\ \E req \in DispatchRequests : dispatched' = [req |-> req, d |-> Layer(req)]
    /\ UNCHANGED <<build, NotDispatch, lockfree>>

NextDispatch == Query \/ Dispatch

SpecDispatch == InitDispatch /\ [][NextDispatch]_vars

(***************************************************************************)
(* Counting: every thread issues fetch_add(1) a fixed number of times on   *)
(* one location that starts at zero.                                       *)
(***************************************************************************)
NumThreads == 2

CallsPerThread == 2

CountThreads == 1..NumThreads

\* Storage of the number k < 256 in an integer of n bytes.
Storage(k, n) ==
    [i \in 1..n |-> IF i = (IF target_endian = "little" THEN 1 ELSE n) THEN k ELSE 0]

AddOne == Request("fetch_add", <<Storage(1, size_of_T)>>, <<"SeqCst">>)

InitCount ==
    /\ InitBuild
    /\ IsInteger
    /\ mem = Zero(size_of_T)
    /\ pc = [t \in CountThreads |-> "idle"]
    /\ pend = [t \in CountThreads |-> NoCall]
    /\ tmp = [t \in CountThreads |-> <<>>]
    /\ lock = 0
    /\ issued = [t \in CountThreads |-> 0]
    /\ rets = <<>>
    /\ calls = 0
    /\ ev = NoEvent
    /\ raw = NoRaw
    /\ DispatchIdle
    /\ PassingIdle

CountNative(t) ==
    /\ pc[t] = "idle"
    /\ issued[t] < CallsPerThread
    /\ LET d == Layer(AddOne)
           r == ExecNative(d, mem, FALSE)
       IN  /\ d.recv # "fallback"
           /\ mem' = r.mem
           /\ rets' = Append(rets, r.ret.v)
    /\ issued' = [issued EXCEPT ![t] = @ + 1]
    /\ UNCHANGED <<build, NotCount, pc, pend, tmp, lock>>

CountFallback(t) ==
    /\ pc[t] = "idle"
    /\ issued[t] < CallsPerThread
    /\ LET d == Layer(AddOne)
       IN  /\ d.recv = "fallback"
           /\ pend' = [pend EXCEPT ![t] = [req |-> AddOne, d |-> d]]
    /\ pc' = [pc EXCEPT ![t] = "fb_wait"]
    /\ issued' = [issued EXCEPT ![t] = @ + 1]
    /\ UNCHANGED <<build, NotCount, mem, tmp, lock, rets>>

CountCommit(t) ==
    /\ pc[t] = "fb_locked"
    /\ LET d == pend[t].d
           r == fallback(d.fn, tmp[t], d.args)
       IN  /\ mem' = r.cell
           /\ rets' = Append(rets, Bridge(d.bridge, r.out).v)
    /\ lock' = 0
    /\ tmp' = [tmp EXCEPT ![t] = <<>>]
    /\ pend' = [pend EXCEPT ![t] = NoCall]
    /\ pc' = [pc EXCEPT ![t] = "idle"]
    /\ UNCHANGED <<build, NotCount, issued>>

NextCount ==
    \E t \in CountThreads :
        \/ CountNative(t)
        \/ CountFallback(t)
        \/ FallbackLock(t)
        \/ CountCommit(t)

SpecCount == InitCount /\ [][NextCount]_vars

CountDone ==
    /\ DOMAIN issued = CountThreads
    /\ \A t \in CountThreads : issued[t] = CallsPerThread /\ pc[t] = "idle"

(***************************************************************************)
(* Swapping: every thread swaps values into one location.  `raw` keeps the *)
(* bytes the location started with.                                        *)
(***************************************************************************)
SwapRequest(v) == Request("swap", <<v>>, <<"SeqCst">>)

\* The one-byte and the eight-byte builds, native and fallback.
SwapBuilds == {b \in Builds : b.size \in {1, 8}}

InitSwap ==
    /\ \E b \in SwapBuilds :
        /\ size_of_T = b.size
        /\ align_of_T = b.align
        /\ target_has_atomic = b.has
        /\ target_endian = b.endian
    /\ mem = Lo(size_of_T, 250)
    /\ raw = [cell |-> mem, out |-> Unit]
    /\ pc = [t \in CountThreads |-> "idle"]
    /\ pend = [t \in CountThreads |-> NoCall]
    /\ tmp = [t \in CountThreads |-> <<>>]
    /\ lock = 0
    /\ issued = [t \in CountThreads |-> <<>>]
    /\ rets = <<>>
    /\ calls = 0
    /\ ev = NoEvent
    /\ DispatchIdle
    /\ PassingIdle

SwapNative(t) ==
    /\ pc[t] = "idle"
    /\ Len(issued[t]) < CallsPerThread
    /\ \E v \in TVals(size_of_T) :
         LET d == Layer(SwapRequest(v))
             r == ExecNative(d, mem, FALSE)
         IN  /\ d.recv # "fallback"
             /\ mem' = r.mem
             /\ rets' = Append(rets, r.ret.v)
             /\ issued' = [issued EXCEPT ![t] = Append(@, v)]
    /\ UNCHANGED <<build, NotCount, pc, pend, tmp, lock>>

SwapFallback(t) ==
    /\ pc[t] = "idle"
    /\ Len(issued[t]) < CallsPerThread
    /\ \E v \in TVals(size_of_T) :
         LET d == Layer(SwapRequest(v))
         IN  /\ d.recv = "fallback"
             /\ pend' = [pend EXCEPT ![t] = [req |-> SwapRequest(v), d |-> d]]
             /\ issued' = [issued EXCEPT ![t] = Append(@, v)]
    /\ pc' = [pc EXCEPT ![t] = "fb_wait"]
    /\ UNCHANGED <<build, NotCount, mem, tmp, lock, rets>>

NextSwap ==
    \E t \in CountThreads :
        \/ SwapNative(t)
        \/ SwapFallback(t)
        \/ FallbackLock(t)
        \/ CountCommit(t)

SpecSwap == InitSwap /\ [][NextSwap]_vars

SwapDone ==
    /\ DOMAIN issued = CountThreads
    /\ \A t \in CountThreads : Len(issued[t]) = CallsPerThread /\ pc[t] = "idle"

(***************************************************************************)
(* Progress: a call is entered in one step and served in a later one, so   *)
(* that a thread can be stopped in the middle of a call.  Thread 1 keeps   *)
(* running; thread 2 may stop anywhere, for ever.                          *)
(***************************************************************************)
ProgressRequests ==
    {Request("swap", <<Full(size_of_T)>>, <<"SeqCst">>),
     Request("compare_exchange_weak", <<Lo(size_of_T, 10), Full(size_of_T)>>,
             <<"SeqCst", "SeqCst">>)}
      \cup (IF IsInteger
            THEN {Request("fetch_add", <<Lo(size_of_T, 10)>>, <<"SeqCst">>)}
            ELSE {})

InitProgress ==
    /\ InitBuild
    /\ mem = Lo(size_of_T, 10)
    /\ pc = [t \in Threads |-> "idle"]
    /\ pend = [t \in Threads |-> NoCall]
    /\ tmp = [t \in Threads |-> <<>>]
    /\ lock = 0
    /\ calls = 0
    /\ ev = NoEvent
    /\ raw = NoRaw
    /\ DispatchIdle
    /\ CountIdle
    /\ PassingIdle

\* The thread calls a function of the layer: the arm for T is entered.
Enter(t) ==
    /\ pc[t] = "idle"
    /\ calls < MaxCalls
    /\ \E req \in ProgressRequests :
         LET d == Layer(req)
         IN  /\ pend' = [pend EXCEPT ![t] = [req |-> req, d |-> d]]
             /\ pc' = [pc EXCEPT ![t] = IF d.recv = "fallback" THEN "fb_wait" ELSE "native"]
    /\ calls' = calls + 1
    /\ ev' = NoEvent
    /\ UNCHANGED <<build, NotMain, mem, tmp, lock, raw>>

\* The native arm's one hardware operation, and the return.
NativeStep(t) ==
    /\ pc[t] = "native"
    /\ \E spurious \in (IF pend[t].d.fn = "compare_exchange_weak" THEN BOOLEAN ELSE {FALSE}) :
         LET d == pend[t].d
             r == ExecNative(d, mem, spurious)
         IN  /\ mem' = r.mem
             /\ ev' = Event(t, pend[t].req, d, mem, r.mem, r.out, r.ret)
    /\ pend' = [pend EXCEPT ![t] = NoCall]
    /\ pc' = [pc EXCEPT ![t] = "idle"]
    /\ UNCHANGED <<build, NotMain, calls, tmp, lock, raw>>

\* The steps of a thread inside a call.
Proceed(t) == NativeStep(t) \/ FallbackLock(t) \/ FallbackCommit(t)

NextProgress == \E t \in Threads : Enter(t) \/ Proceed(t)

SpecProgress == InitProgress /\ [][NextProgress]_vars /\ WF_vars(Proceed(1))

(***************************************************************************)
(* Message passing.  Thread A writes the data x and y with ordinary        *)
(* writes and then stores the flag through the layer; thread B loads the   *)
(* flag through the layer until it is set and then reads x and y.          *)
(*                                                                         *)
(* Memory is weak: every location keeps its writes in modification order,  *)
(* every thread has a view (per location, the latest write it has seen)    *)
(* and a read may return any write not older than the thread's view.  A    *)
(* release write publishes the writer's view with the write; an acquire    *)
(* read that reads it adopts that view.  Each location has one writer.     *)
(***************************************************************************)
Locs == {"x", "y", "flag", "lock"}

\* How many times B loads the flag before it gives up.
MaxPolls == 2

View0 == [l \in Locs |-> 1]

Join(v, w) == [l \in Locs |-> IF v[l] >= w[l] THEN v[l] ELSE w[l]]

IsRelease(o) == o \in {"Release", "AcqRel", "SeqCst"}

IsAcquire(o) == o \in {"Acquire", "AcqRel", "SeqCst"}

Msg(val, view) == [val |-> val, view |-> view]

LastMsg(l) == msgs[l][Len(msgs[l])]

\* The writes of location l that thread t may read.
Readable(t, l) == tview[t][l]..Len(msgs[l])

\* Thread t writes val to l; a release write carries the writer's view.
WriteLoc(t, l, val, release) ==
    LET n == Len(msgs[l]) + 1
        cur == [tview[t] EXCEPT ![l] = n]
    IN  /\ msgs' = [msgs EXCEPT
                      ![l] = Append(@, Msg(val, IF release THEN cur
                                                ELSE [View0 EXCEPT ![l] = n]))]
        /\ tview' = [tview EXCEPT ![t] = cur]

\* Thread t reads the i-th write of l; an acquire read adopts its view.
ReadLoc(t, l, i, acquire) ==
    LET cur == [tview[t] EXCEPT ![l] = i]
    IN  tview' = [tview EXCEPT ![t] = IF acquire THEN Join(cur, msgs[l][i].view) ELSE cur]

FlagClear == Zero(size_of_T)

FlagSet == Lo(size_of_T, 1)

\* What each thread calls: A stores the flag, B loads it.
CallOf(t) == IF t = "A" THEN atomic_store(FlagSet, mord[1]) ELSE atomic_load(mord[2])

InitPassing ==
    /\ InitBuild
    /\ mord \in StoreOrders \X LoadOrders
    /\ msgs = [l \in Locs |-> <<Msg(IF l = "flag" THEN FlagClear ELSE 0, View0)>>]
    /\ tview = [t \in {"A", "B"} |-> View0]
    /\ regs = [flag |-> FlagClear, x |-> -1, y |-> -1, polls |-> 0]
    /\ pc = [t \in {"A", "B"} |-> IF t = "A" THEN "write_x" ELSE "load"]
    /\ mem = <<>>
    /\ pend = <<>>
    /\ tmp = <<>>
    /\ lock = 0
    /\ calls = 0
    /\ ev = NoEvent
    /\ raw = NoRaw
    /\ DispatchIdle
    /\ CountIdle

\* A's ordinary writes of the data.
WriteData ==
    /\ pc["A"] \in {"write_x", "write_y"}
    /\ WriteLoc("A", IF pc["A"] = "write_x" THEN "x" ELSE "y", 1, FALSE)
    /\ pc' = [pc EXCEPT !["A"] = IF pc["A"] = "write_x" THEN "write_y" ELSE "store"]
    /\ UNCHANGED <<build, NotPassing, regs, mord>>

\* atomic_store on a native arm: one write with the ordering the arm passes.
StoreFlagNative ==
    /\ pc["A"] = "store"
    /\ LET d == CallOf("A")
           r == ExecNative(d, LastMsg("flag").val, FALSE)
       IN  /\ d.recv # "fallback"
           /\ WriteLoc("A", "flag", r.mem, IsRelease(d.orders[1]))
    /\ pc' = [pc EXCEPT !["A"] = "done"]
    /\ UNCHANGED <<build, NotPassing, regs, mord>>

\* atomic_load on a native arm: one read with the ordering the arm passes.
LoadFlagNative ==
    /\ pc["B"] = "load"
    /\ regs.polls < MaxPolls
    /\ LET d == CallOf("B")
       IN  /\ d.recv # "fallback"
           /\ \E i \in Readable("B", "flag") :
                LET r == ExecNative(d, msgs["flag"][i].val, FALSE)
                IN  /\ ReadLoc("B", "flag", i, IsAcquire(d.orders[1]))
                    /\ regs' = [regs EXCEPT !.flag = r.ret.v, !.polls = @ + 1]
                    /\ pc' = [pc EXCEPT !["B"] = IF r.ret.v = FlagSet THEN "read_x"
                                                 ELSE "load"]
    /\ UNCHANGED <<build, NotPassing, msgs, mord>>

\* A call on the fallback arm enters the fallback.
EnterFallback(t) ==
    /\ pc[t] = (IF t = "A" THEN "store" ELSE "load")
    /\ t = "B" => regs.polls < MaxPolls
    /\ CallOf(t).recv = "fallback"
    /\ pc' = [pc EXCEPT ![t] = "fb_wait"]
    /\ regs' = IF t = "B" THEN [regs EXCEPT !.polls = @ + 1] ELSE regs
    /\ UNCHANGED <<build, NotPassing, msgs, tview, mord>>

\* The fallback takes its lock: an acquire read-modify-write of the lock word
\* that reads its latest write.
LockAcquire(t) ==
    /\ pc[t] = "fb_wait"
    /\ LastMsg("lock").val = 0
    /\ LET n == Len(msgs["lock"]) + 1
           seen == Join([tview[t] EXCEPT !["lock"] = n], LastMsg("lock").view)
       IN  /\ msgs' = [msgs EXCEPT !["lock"] =
                          Append(@, Msg(1, [LastMsg("lock").view EXCEPT !["lock"] = n]))]
           /\ tview' = [tview EXCEPT ![t] = seen]
    /\ pc' = [pc EXCEPT ![t] = "fb_locked"]
    /\ UNCHANGED <<build, NotPassing, regs, mord>>

\* Under the lock the fallback reads and writes dst with ordinary accesses.
CriticalSection(t) ==
    /\ pc[t] = "fb_locked"
    /\ \E i \in Readable(t, "flag") :
         LET d == CallOf(t)
             r == fallback(d.fn, msgs["flag"][i].val, d.args)
         IN  /\ IF d.fn = "atomic_load"
                THEN ReadLoc(t, "flag", i, FALSE) /\ UNCHANGED msgs
                ELSE WriteLoc(t, "flag", r.cell, FALSE)
             /\ regs' = IF t = "B" THEN [regs EXCEPT !.flag = Bridge(d.bridge, r.out).v]
                        ELSE regs
    /\ pc' = [pc EXCEPT ![t] = "fb_unlock"]
    /\ UNCHANGED <<build, NotPassing, mord>>

\* The fallback releases its lock with a release write and returns.
LockRelease(t) ==
    /\ pc[t] = "fb_unlock"
    /\ WriteLoc(t, "lock", 0, TRUE)
    /\ pc' = [pc EXCEPT ![t] = IF t = "A" THEN "done"
                               ELSE IF regs.flag = FlagSet THEN "read_x" ELSE "load"]
    /\ UNCHANGED <<build, NotPassing, regs, mord>>

\* B's ordinary reads of the data, after it has seen the flag set.
ReadData ==
    /\ pc["B"] \in {"read_x", "read_y"}
    /\ LET l == IF pc["B"] = "read_x" THEN "x" ELSE "y"
       IN  \E i \in Readable("B", l) :
             /\ ReadLoc("B", l, i, FALSE)
             /\ regs' = [regs EXCEPT ![l] = msgs[l][i].val]
    /\ pc' = [pc EXCEPT !["B"] = IF pc["B"] = "read_x" THEN "read_y" ELSE "done"]
    /\ UNCHANGED <<build, NotPassing, msgs, mord>>

NextPassing ==
    \/ WriteData
    \/ StoreFlagNative
    \/ LoadFlagNative
    \/ ReadData
    \/ \E t \in {"A", "B"} :
         \/ EnterFallback(t)
         \/ LockAcquire(t)
         \/ CriticalSection(t)
         \/ LockRelease(t)

SpecPassing == InitPassing /\ [][NextPassing]_vars

(***************************************************************************)
(* The bridge alone: one thread takes a value of T to the integer of its   *)
(* width and back, then writes it through the layer and reads it back.     *)
(***************************************************************************)
NotRoundTrip == <<tmp, lock, calls, lockfree, dispatched, issued, msgs, tview, regs, mord>>

\* The bytes tried at every position of a value.
PatternBytes == {0, 1, 255}

RECURSIVE Patterns(_)
Patterns(n) ==
    IF n = 0 THEN {<<>>}
    ELSE {Append(p, b) : p \in Patterns(n - 1), b \in PatternBytes}

\* One call served start to finish, with no other thread about.
\* The fallback works on the size_of_T bytes at dst.
Execute(d, m) ==
    IF d.recv = "fallback"
    THEN LET r == fallback(d.fn, SubSeq(m, 1, size_of_T), d.args)
         IN  [mem |-> r.cell \o SubSeq(m, size_of_T + 1, Len(m)),
              out |-> r.out,
              ret |-> Bridge(d.bridge, r.out)]
    ELSE ExecNative(d, m, FALSE)

InitRoundTrip ==
    /\ \E b \in {c \in Builds : c.size <= 8} :
        /\ size_of_T = b.size
        /\ align_of_T = b.align
        /\ target_has_atomic = b.has
        /\ target_endian = b.endian
    /\ pend \in Patterns(size_of_T)
    /\ mem \in {Zero(size_of_T), Full(size_of_T)}
    /\ pc = "start"
    /\ raw = NoRaw
    /\ rets = <<>>
    /\ ev = NoEvent
    /\ tmp = <<>>
    /\ lock = 0
    /\ calls = 0
    /\ DispatchIdle
    /\ issued = <<>>
    /\ PassingIdle

\* T to uN, as a native arm does to an operand: mem::transmute_copy(&val).
ToInteger ==
    /\ pc = "start"
    /\ LET d == atomic_store(pend, "SeqCst")
       IN  /\ d.recv # "fallback"
           /\ raw' = [cell |-> d.args[1], out |-> Unit]
    /\ pc' = "integer"
    /\ UNCHANGED <<build, NotRoundTrip, mem, pend, rets, ev>>

\* uN to T, as a native arm does to a result: mem::transmute_copy(&result).
ToGeneric ==
    /\ pc = "integer"
    /\ rets' = <<Bridge("transmute_copy", Val(raw.cell)).v>>
    /\ pc' = "back"
    /\ UNCHANGED <<build, NotRoundTrip, mem, pend, raw, ev>>

\* The value is stored or swapped in through the layer.
WriteValue ==
    /\ pc \in {"start", "back"}
    /\ \E op \in {"store", "swap"} :
         LET req == Request(op, <<pend>>, <<"SeqCst">>)
             d == Layer(req)
             r == Execute(d, mem)
         IN  /\ mem' = r.mem
             /\ ev' = Event(1, req, d, mem, r.mem, r.out, r.ret)
    /\ pc' = "written"
    /\ UNCHANGED <<build, NotRoundTrip, pend, raw, rets>>

\* It is read back by a load, or by a compare_exchange that expects it.
ReadValue ==
    /\ pc = "written"
    /\ \E req \in {Request("load", <<>>, <<"SeqCst">>),
                   Request("compare_exchange", <<pend, pend>>, <<"SeqCst", "SeqCst">>)} :
         LET d == Layer(req)
             r == Execute(d, mem)
         IN  /\ mem' = r.mem
             /\ ev' = Event(1, req, d, mem, r.mem, r.out, r.ret)
    /\ pc' = "read"
    /\ UNCHANGED <<build, NotRoundTrip, pend, raw, rets>>

NextRoundTrip == ToInteger \/ ToGeneric \/ WriteValue \/ ReadValue

SpecRoundTrip == InitRoundTrip /\ [][NextRoundTrip]_vars

(***************************************************************************)
(* The neighbourhood: the location at dst is followed in memory by bytes   *)
(* that belong to something else.  `mem` is the location and its           *)
(* neighbour; `raw` keeps the memory as it was at the start.               *)
(***************************************************************************)
Neighbours == {[i \in 1..8 |-> 170], [i \in 1..8 |-> 85]}

\* The bytes of the location, and the bytes after it.
Loc(m) == SubSeq(m, 1, size_of_T)

Rest(m) == SubSeq(m, size_of_T + 1, Len(m))

InitFrame ==
    /\ InitBuild
    /\ \E v \in InitVals(size_of_T) : \E n \in Neighbours : mem = v \o n
    /\ raw = [cell |-> mem, out |-> Unit]
    /\ pc = <<>>
    /\ pend = <<>>
    /\ tmp = <<>>
    /\ lock = 0
    /\ calls = 0
    /\ ev = NoEvent
    /\ DispatchIdle
    /\ CountIdle
    /\ PassingIdle

\* A call served by a native arm.
CallNative ==
    /\ calls < MaxCalls
    /\ \E req \in MainRequests :
         \E spurious \in (IF req.op = "compare_exchange_weak" THEN BOOLEAN ELSE {FALSE}) :
           LET d == Layer(req)
               r == ExecNative(d, mem, spurious)
           IN  /\ d.recv # "fallback"
               /\ mem' = r.mem
               /\ ev' = Event(1, req, d, mem, r.mem, r.out, r.ret)
    /\ calls' = calls + 1
    /\ UNCHANGED <<build, NotMain, pc, pend, tmp, lock, raw>>

\* A call served by the fallback, start to finish.
CallFallback ==
    /\ calls < MaxCalls
    /\ \E req \in MainRequests :
         LET d == Layer(req)
             r == Execute(d, mem)
         IN  /\ d.recv = "fallback"
             /\ mem' = r.mem
             /\ ev' = Event(1, req, d, mem, r.mem, r.out, r.ret)
    /\ calls' = calls + 1
    /\ UNCHANGED <<build, NotMain, pc, pend, tmp, lock, raw>>

NextFrame == CallNative \/ CallFallback

SpecFrame == InitFrame /\ [][NextFrame]_vars

(***************************************************************************)
(* Arithmetic as the claims state it, without the digit-by-digit carry.    *)
(***************************************************************************)
\* The k-th base-256 digit (k = 0 the least significant) of integer storage b.
Digit(b, k) == IF target_endian = "little" THEN b[k + 1] ELSE b[Len(b) - k]

\* The carry into digit k of a + b: some lower digit generates a carry and
\* every digit between passes it on.
CarryInto(a, b, k) ==
    \E j \in 0..(k - 1) :
        /\ Digit(a, j) + Digit(b, j) >= 256
        /\ \A i \in (j + 1)..(k - 1) : Digit(a, i) + Digit(b, i) >= 255

\* The borrow into digit k of a - b.
BorrowInto(a, b, k) ==
    \E j \in 0..(k - 1) :
        /\ Digit(a, j) < Digit(b, j)
        /\ \A i \in (j + 1)..(k - 1) : Digit(a, i) <= Digit(b, i)

\* r = (a + b) mod 2^(8 * Len(a)).
IsSumMod(r, a, b) ==
    /\ Len(r) = Len(a)
    /\ \A k \in 0..(Len(a) - 1) :
         Digit(r, k) =
            (Digit(a, k) + Digit(b, k) + (IF CarryInto(a, b, k) THEN 1 ELSE 0)) % 256

\* r = (a - b) mod 2^(8 * Len(a)).
IsDifferenceMod(r, a, b) ==
    /\ Len(r) = Len(a)
    /\ \A k \in 0..(Len(a) - 1) :
         Digit(r, k) =
            (Digit(a, k) + 256 - Digit(b, k) - (IF BorrowInto(a, b, k) THEN 1 ELSE 0)) % 256

\* The number that storage of at most three bytes holds.
Num(b) ==
    LET d(k) == IF k < Len(b) THEN Digit(b, k) ELSE 0
    IN  d(0) + 256 * d(1) + 65536 * d(2)

(***************************************************************************)
(* C1: for a location holding X, compare_exchange(cur = X, new = Y)        *)
(* succeeds, leaves Y and returns success(X); with cur = Z # X it fails,   *)
(* leaves X and returns failure(X).  X is the value held at the instant    *)
(* the operation takes effect, whatever other threads do.                  *)
(***************************************************************************)
C1_CompareExchange ==
    ev.op = "compare_exchange" =>
        IF ev.pre = ev.a[1]
        THEN ev.post = ev.a[2] /\ ev.ret = Ok(ev.a[1])
        ELSE ev.post = ev.pre /\ ev.ret = Err(ev.pre)

\* A compare_exchange succeeds and changes the location while another thread
\* is in the middle of its own call.
C1_Witness ==
    /\ ev.op = "compare_exchange"
    /\ ev.ret.tag = "Ok"
    /\ ev.post # ev.pre
    /\ \E u \in Threads : u # ev.t /\ pc[u] # "idle"

(***************************************************************************)
(* C4: fetch_add(v) and fetch_sub(v) on a location of w bytes holding old  *)
(* return old and leave (old + v) mod 2^(8w), respectively                 *)
(* (old - v) mod 2^(8w); they never fail or saturate.                      *)
(***************************************************************************)
C4_WrappingAddSub ==
    /\ ev.op = "fetch_add" =>
         /\ ev.ret = Val(ev.pre)
         /\ IsSumMod(ev.post, ev.pre, ev.a[1])
         /\ size_of_T <= 3 =>
              Num(ev.post) = (Num(ev.pre) + Num(ev.a[1])) % (256 ^ size_of_T)
    /\ ev.op = "fetch_sub" =>
         /\ ev.ret = Val(ev.pre)
         /\ IsDifferenceMod(ev.post, ev.pre, ev.a[1])
         /\ size_of_T <= 3 =>
              Num(ev.post) =
                 (Num(ev.pre) + (256 ^ size_of_T) - Num(ev.a[1])) % (256 ^ size_of_T)

\* An 8-bit location holding 250: fetch_add(10) returns 250 and leaves 4.
C4_Witness ==
    /\ ev.op = "fetch_add"
    /\ ev.recv = "AtomicU8"
    /\ ev.pre = <<250>>
    /\ ev.a[1] = <<10>>
    /\ ev.ret = Val(<<250>>)
    /\ ev.post = <<4>>

(***************************************************************************)
(* C5: compare_exchange_weak may fail although the location equals cur.    *)
(* When it reports success(cur) the location held cur and now holds new;   *)
(* when it reports failure the location is unchanged and the value         *)
(* returned is the value it held; it never succeeds when the location      *)
(* differed from cur.                                                      *)
(***************************************************************************)
C5_CompareExchangeWeak ==
    ev.op = "compare_exchange_weak" =>
        /\ ev.ret.tag \in {"Ok", "Err"}
        /\ ev.ret.tag = "Ok" =>
             ev.pre = ev.a[1] /\ ev.post = ev.a[2] /\ ev.ret.v = ev.a[1]
        /\ ev.ret.tag = "Err" =>
             ev.post = ev.pre /\ ev.ret.v = ev.pre

\* A spurious failure: the location equals cur, and the call reports failure.
C5_Witness ==
    /\ ev.op = "compare_exchange_weak"
    /\ ev.ret.tag = "Err"
    /\ ev.pre = ev.a[1]
    /\ ev.a[2] # ev.a[1]

Eligible ==
    /\ size_of_T \in {1, 2, 4, 8}
    /\ align_of_T >= size_of_T
    /\ (8 * size_of_T) \in target_has_atomic

(***************************************************************************)
(* C6: for a type eligible for native width w, a sequence of load, store,  *)
(* swap and fetch-* issued through the layer returns, step by step, the    *)
(* same results and leaves the same bits as the same sequence issued       *)
(* against a raw native unsigned atomic of width w that initially holds    *)
(* identical bits.                                                         *)
(***************************************************************************)
C6_NativeEquivalence ==
    (Eligible /\ ev.op \in {"load", "store", "swap", "fetch_add", "fetch_sub",
                            "fetch_and", "fetch_or", "fetch_xor"}) =>
        /\ ev.recv # "fallback"
        /\ mem = raw.cell
        /\ ev.ret = raw.out

\* The second operation of a sequence, a fetch_xor, on a location that the
\* first operation changed.
C6_Witness ==
    /\ Eligible
    /\ ev.op = "fetch_xor"
    /\ calls >= 2
    /\ ev.pre \notin InitVals(size_of_T)
    /\ ev.post # ev.pre

\* The fallback operation that stands for an operation of the layer.
FallbackKind(op) ==
    CASE op = "load" -> "atomic_load"
      [] op = "store" -> "atomic_store"
      [] op = "swap" -> "atomic_swap"
      [] op = "compare_exchange" -> "atomic_compare_exchange"
      [] op = "compare_exchange_weak" -> "atomic_compare_exchange"
      [] op = "fetch_add" -> "atomic_add"
      [] op = "fetch_sub" -> "atomic_sub"
      [] op = "fetch_and" -> "atomic_and"
      [] op = "fetch_or" -> "atomic_or"
      [] op = "fetch_xor" -> "atomic_xor"

Outcome(r) == [post |-> r.cell, ret |-> r.out]

NativeOutcomes(op, pre, a) ==
    {Outcome(AtomicU(op, pre, a, spurious)) : spurious \in BOOLEAN}

FallbackOutcomes(op, pre, a) == {Outcome(fallback(FallbackKind(op), pre, a))}

EventOutcome == [post |-> ev.post, ret |-> ev.ret]

SpuriousFailure ==
    ev.op = "compare_exchange_weak" /\ ev.ret.tag = "Err" /\ ev.pre = ev.a[1]

(***************************************************************************)
(* C7: the results and memory contents allowed on the fallback path are    *)
(* those allowed on the native path, for the same value at dst and the     *)
(* same operation and operands.                                            *)
(*                                                                         *)
(* As amended: every outcome of a call on the fallback path is one the     *)
(* native atomic of the type's size allows, and every outcome on the       *)
(* native path is one the fallback allows, except the spurious failure of  *)
(* compare_exchange_weak, which only the native path produces.             *)
(***************************************************************************)
C7_PathsAgree ==
    ev.op # "none" =>
        /\ EventOutcome \in NativeOutcomes(ev.op, ev.pre, ev.a)
        /\ ~SpuriousFailure => EventOutcome \in FallbackOutcomes(ev.op, ev.pre, ev.a)
        /\ SpuriousFailure => ev.recv # "fallback"

\* C7 as stated: the two paths allow the same outcomes.
C7_SameOutcomes ==
    ev.op # "none" =>
        /\ EventOutcome \in NativeOutcomes(ev.op, ev.pre, ev.a)
        /\ EventOutcome \in FallbackOutcomes(ev.op, ev.pre, ev.a)

\* A fetch_sub on the fallback path wraps below zero while another thread
\* is waiting for the lock.
C7_Witness ==
    /\ ev.recv = "fallback"
    /\ ev.op = "fetch_sub"
    /\ size_of_T = 8
    /\ ev.pre = Lo(8, 10)
    /\ ev.a[1] = Full(8)
    /\ \E u \in Threads : pc[u] = "fb_wait"

(***************************************************************************)
(* C10: when the classifier selects the fallback, the operation is         *)
(* forwarded to the fallback's operation of the same kind with the same    *)
(* operands, and the fallback's result is returned unchanged.              *)
(***************************************************************************)
C10_FallbackForwarding ==
    ev.recv = "fallback" =>
        /\ ev.fn = FallbackKind(ev.op)
        /\ ev.args = ev.a
        /\ ev.ret = ev.out

\* A swap forwarded to the fallback has returned the value it replaced.
C10_Witness ==
    /\ ev.recv = "fallback"
    /\ ev.op = "swap"
    /\ ev.fn = "atomic_swap"
    /\ ev.ret = Val(ev.pre)
    /\ ev.post = ev.a[1]
    /\ ev.post # ev.pre

C3_LockFree ==
    lockfree # "unknown" => (lockfree = "true" <=> Eligible)

\* The query answers true for an 8-byte type aligned to 8 on a target with
\* 64-bit atomics.
C3_Witness ==
    /\ lockfree = "true"
    /\ size_of_T = 8
    /\ align_of_T = 8
    /\ 64 \in target_has_atomic

(***************************************************************************)
(* C9: the path decision is the same for the lock-free query and for every *)
(* operation: an operation runs on the native atomic of the type's width   *)
(* exactly when atomic_is_lock_free::<T>() is true, and is routed to the   *)
(* fallback exactly when it is false.                                      *)
(***************************************************************************)
C9_SamePathDecision ==
    dispatched.req.op # "none" =>
        /\ dispatched.d.recv # "fallback" <=> atomic_is_lock_free
        /\ dispatched.d.recv # "fallback" => WidthOf(dispatched.d.recv) = size_of_T
        /\ (dispatched.d.recv = "fallback" /\ lockfree # "unknown") => lockfree = "false"

\* A 2-byte type aligned to 1, on a target with 16-bit atomics: the
\* compare_exchange goes to the fallback and the query has answered false.
C9_Witness ==
    /\ dispatched.req.op = "compare_exchange"
    /\ dispatched.d.recv = "fallback"
    /\ size_of_T = 2
    /\ align_of_T = 1
    /\ 16 \in target_has_atomic
    /\ lockfree = "false"

(***************************************************************************)
(* C8: message passing.  If A performs ordinary writes and then stores the *)
(* flag with Release, and B's load of the flag with Acquire returns the    *)
(* value A stored, then every read B performs afterwards observes A's      *)
(* writes made before the store.                                           *)
(***************************************************************************)
C8_MessagePassing ==
    (mord = <<"Release", "Acquire">> /\ regs.flag = FlagSet) =>
        /\ regs.x \in {-1, 1}
        /\ regs.y \in {-1, 1}

\* On a native arm B has seen the flag set and then read both data.
C8_Witness ==
    /\ mord = <<"Release", "Acquire">>
    /\ Eligible
    /\ regs.flag = FlagSet
    /\ regs.x = 1
    /\ regs.y = 1
    /\ pc["B"] = "done"

C12_RoundTrip ==
    /\ rets # <<>> => rets = <<pend>>
    /\ pc = "read" => (ev.ret.v = pend /\ ev.pre = pend /\ mem = pend)

\* An 8-byte pattern with distinct bytes at both ends went to u64 and back and
\* was then swapped in and read back through map_result.
C12_Witness ==
    /\ pc = "read"
    /\ size_of_T = 8
    /\ raw.cell = pend
    /\ rets = <<pend>>
    /\ pend[1] = 1
    /\ pend[8] = 255
    /\ ev.op = "compare_exchange"
    /\ ev.recv = "AtomicU64"
    /\ ev.ret = Ok(pend)

\* Bit k of byte i of a value, as a truth value.
BitSet(b, i, k) == (b[i] \div (2 ^ k)) % 2 = 1

\* r is a op b bit by bit over the whole width.
IsBitwise(op, r, a, b) ==
    /\ Len(r) = Len(a)
    /\ \A i \in 1..Len(a) : \A k \in 0..7 :
         BitSet(r, i, k) <=>
            CASE op = "fetch_and" -> BitSet(a, i, k) /\ BitSet(b, i, k)
              [] op = "fetch_or" -> BitSet(a, i, k) \/ BitSet(b, i, k)
              [] op = "fetch_xor" -> BitSet(a, i, k) # BitSet(b, i, k)

(***************************************************************************)
(* C13: fetch_and(v), fetch_or(v) and fetch_xor(v) on a location holding   *)
(* old each return old and leave old AND v, old OR v, old XOR v, bit by    *)
(* bit over the full width of the type, in one indivisible step under      *)
(* every interleaving: old is what the location held when the operation    *)
(* took effect.                                                            *)
(***************************************************************************)
C13_BitwiseOps ==
    ev.op \in {"fetch_and", "fetch_or", "fetch_xor"} =>
        /\ ev.ret = Val(ev.pre)
        /\ mem = ev.post
        /\ IsBitwise(ev.op, ev.post, ev.pre, ev.a[1])

\* The second call is a fetch_or on a 4-byte location that the first call
\* changed; it sets bits in every byte.
C13_Witness ==
    /\ ev.op = "fetch_or"
    /\ calls = 2
    /\ size_of_T = 4
    /\ ev.pre \notin InitVals(4)
    /\ ev.a[1] = Full(4)
    /\ ev.post = Full(4)
    /\ ev.post # ev.pre

\* How often v occurs in a sequence.
Occurrences(v, seq) == Cardinality({i \in 1..Len(seq) : seq[i] = v})

\* How often v was swapped in, over all threads.
SwappedIn(v) ==
    Cardinality({c \in CountThreads \X (1..CallsPerThread) :
                    c[2] <= Len(issued[c[1]]) /\ issued[c[1]][c[2]] = v})

(***************************************************************************)
(* C14: swap(v) writes v and returns the value the location held just      *)
(* before, as one indivisible step: once the swaps of all threads have     *)
(* returned, the values returned together with the final memory value are, *)
(* as a multiset, the initial value together with all swapped-in values.   *)
(***************************************************************************)
C14_SwapConserves ==
    SwapDone =>
        \A v \in TVals(size_of_T) \cup InitVals(size_of_T) :
            Occurrences(v, Append(rets, mem)) = Occurrences(v, <<raw.cell>>) + SwappedIn(v)

\* All swaps have returned on an 8-byte location: the same value was swapped
\* in more than once and the initial value was returned to one of the calls.
C14_Witness ==
    /\ SwapDone
    /\ size_of_T = 8
    /\ raw.cell = Lo(8, 250)
    /\ SwappedIn(Full(8)) >= 2
    /\ Occurrences(Lo(8, 250), rets) = 1
    /\ mem = Lo(8, 10)

\* An operation run alone on a location holding pre may leave post and return
\* ret.
Sequential(op, a, pre, post, ret) ==
    CASE op = "load" -> post = pre /\ ret = Val(pre)
      [] op = "store" -> post = a[1] /\ ret = Unit
      [] op = "swap" -> post = a[1] /\ ret = Val(pre)
      [] op = "compare_exchange" ->
            IF pre = a[1] THEN post = a[2] /\ ret = Ok(pre)
            ELSE post = pre /\ ret = Err(pre)
      [] op = "compare_exchange_weak" ->
            \/ pre = a[1] /\ post = a[2] /\ ret = Ok(pre)
            \/ post = pre /\ ret = Err(pre)
      [] op = "fetch_add" -> IsSumMod(post, pre, a[1]) /\ ret = Val(pre)
      [] op = "fetch_sub" -> IsDifferenceMod(post, pre, a[1]) /\ ret = Val(pre)
      [] op \in {"fetch_and", "fetch_or", "fetch_xor"} ->
            IsBitwise(op, post, pre, a[1]) /\ ret = Val(pre)

\* A step in which an operation takes effect, or memory changes.
TakesEffect == mem' # mem \/ (ev' # ev /\ ev'.op # "none")

(***************************************************************************)
(* C15: every operation takes effect atomically.  Every step that changes  *)
(* the location or completes a call is the effect of exactly one call,     *)
(* applied whole to the value the location holds at that step and          *)
(* returning what that call returns when run alone on that value; so the   *)
(* calls in the order of their effects are a sequential execution, each    *)
(* effect lying between its call and its return.  On a native arm a call   *)
(* is a single step: no lock is taken and no call is left in progress.     *)
(***************************************************************************)
C15_Atomic ==
    /\ [][TakesEffect =>
            /\ ev'.pre = mem
            /\ ev'.post = mem'
            /\ pc[ev'.t] = (IF ev'.recv = "fallback" THEN "fb_locked" ELSE "idle")
            /\ pc'[ev'.t] = "idle"
            /\ Sequential(ev'.op, ev'.a, ev'.pre, ev'.post, ev'.ret)]_vars
    /\ [](atomic_is_lock_free => (lock = 0 /\ \A t \in Threads : pc[t] = "idle"))

\* The second call, on the fallback path of a 16-byte type, is a
\* compare_exchange that succeeds on the value the first call left.
C15_Witness ==
    /\ ev.recv = "fallback"
    /\ ev.op = "compare_exchange"
    /\ size_of_T = 16
    /\ calls = 2
    /\ ev.pre \notin InitVals(16)
    /\ ev.ret = Ok(ev.pre)
    /\ mem = ev.a[2]
    /\ mem # ev.pre

\* The operations that can write the location.
WriteOps == {"store", "swap", "compare_exchange", "compare_exchange_weak",
             "fetch_add", "fetch_sub", "fetch_and", "fetch_or", "fetch_xor"}

(***************************************************************************)
(* C16: a load returns the current value of the location and never changes *)
(* it.  The current value is the one left by the most recent operation     *)
(* that wrote the location, in the order in which operations took effect,  *)
(* or the initial value: the location changes only in the step in which a  *)
(* store, swap, successful compare-exchange or fetch-* takes effect, and    *)
(* then to the value that operation leaves.                                *)
(***************************************************************************)
C16_LoadCurrent ==
    [][/\ ev'.op = "load" => (ev'.ret = Val(mem) /\ mem' = mem)
       /\ mem' # mem => (ev'.op \in WriteOps /\ ev'.post = mem' /\ ev'.ret.tag # "Err")]_vars

\* The second call is a load, on the fallback path of a 3-byte type, that
\* returns the value a first call wrote.
C16_Witness ==
    /\ ev.op = "load"
    /\ ev.recv = "fallback"
    /\ size_of_T = 3
    /\ calls = 2
    /\ ev.ret = Val(Full(3))
    /\ mem = Full(3)

(***************************************************************************)
(* C17: a native-path operation completes in a bounded number of its own   *)
(* steps whatever other threads do.  For a type served natively, a call in *)
(* progress can always take its one step, and a thread that keeps running  *)
(* returns from every call, also when the other thread has stopped in the  *)
(* middle of a call on the same location.                                  *)
(***************************************************************************)
C17_NativeCompletes ==
    /\ [](atomic_is_lock_free =>
            \A t \in Threads : pc[t] \in {"idle", "native"} /\ (pc[t] = "native" => ENABLED NativeStep(t)))
    /\ (atomic_is_lock_free /\ pc[1] # "idle") ~> (pc[1] = "idle")

\* Thread 1 has returned from a native call while thread 2 is stopped between
\* entering its call and its hardware operation.
C17_Witness ==
    /\ atomic_is_lock_free
    /\ ev.t = 1
    /\ ev.recv = "AtomicU64"
    /\ pc[1] = "idle"
    /\ pc[2] = "native"

(***************************************************************************)
(* C18: an operation reads and writes only the bytes of its location.  The *)
(* bytes that follow the location in memory are never changed, and what a  *)
(* call leaves and returns is what the operation gives when run alone on   *)
(* the size_of_T bytes of the location with the call's operands (with the  *)
(* spurious failure allowed to compare_exchange_weak): it depends neither  *)
(* on the neighbouring bytes nor on earlier calls.                         *)
(***************************************************************************)
C18_Frame ==
    /\ Len(mem) = Len(raw.cell)
    /\ Rest(mem) = Rest(raw.cell)
    /\ ev.op # "none" =>
          /\ Rest(ev.post) = Rest(ev.pre)
          /\ Sequential(ev.op, ev.a, Loc(ev.pre), Loc(ev.post), ev.ret)

\* The second call is a store on a native 2-byte location that overwrites
\* every byte of it, next to a neighbour that differs from the stored value.
C18_Witness ==
    /\ ev.op = "store"
    /\ ev.recv = "AtomicU16"
    /\ calls = 2
    /\ Loc(mem) = Full(2)
    /\ Loc(ev.pre) # Full(2)
    /\ Loc(ev.pre) # Loc(raw.cell)
    /\ Rest(mem) = [i \in 1..8 |-> 85]

\* The request with every ordering replaced by SeqCst, which is valid for
\* every operation.
WithSeqCst(req) == [req EXCEPT !.o = [i \in 1..Len(req.o) |-> "SeqCst"]]

\* A call of the layer's, its orderings left out.
SansOrders(d) == [d EXCEPT !.orders = <<>>]

C20_WeakIsStrongOnFallback ==
    (ev.op = "compare_exchange_weak" /\ ev.recv = "fallback") =>
        /\ ev.fn = "atomic_compare_exchange"
        /\ ev.args = ev.a
        /\ mem = ev.post
        /\ IF ev.pre = ev.a[1]
           THEN ev.ret = Ok(ev.pre) /\ ev.post = ev.a[2]
           ELSE ev.ret = Err(ev.pre) /\ ev.post = ev.pre

\* A weak compare-exchange on an 8-byte type aligned to 4 finds cur at the
\* location and installs a different value.
C20_Witness ==
    /\ ev.op = "compare_exchange_weak"
    /\ ev.recv = "fallback"
    /\ size_of_T = 8
    /\ align_of_T = 4
    /\ ev.pre = ev.a[1]
    /\ ev.ret = Ok(ev.a[1])
    /\ mem = ev.a[2]
    /\ ev.a[2] # ev.a[1]

====
